---- MODULE Spec2Model ----
(***************************************************************************)
(* Crokette-Launcher: the three GameLibrary discovery scripts              *)
(* (src/unnamed/part_000 and the two classes of src/gamecode.js) and the   *)
(* AdminPanel of src/unnamed/part_000.                                     *)
(*                                                                         *)
(* Text (identifiers, URLs, document bodies) is a sequence of tokens, a    *)
(* token being one character or one opaque chunk of characters.  JSON     *)
(* values are tagged records [t |-> ..., v |-> ...].                       *)
(***************************************************************************)
EXTENDS Integers, Sequences, FiniteSets, TLC

VARIABLES
    \* ---- GameLibrary ----
    variant,      \* which GameLibrary script runs
    envResp,      \* what each discovery probe of this run answers
    pc,           \* position of init()/scanGameFolders()
    games,        \* this.games of GameLibrary
    folders,      \* the identifier list the current for-loop walks
    fi,           \* index of the loop's current identifier
    lpc,          \* position of loadGameMetadata()
    folderName,   \* argument of the running loadGameMetadata()
    metaResp,     \* response of the last github.json fetch
    metadata,     \* parsed metadata document
    ci,           \* index of the cover candidate to request next
    usedCover,    \* usedCover local
    coverReq,     \* cover requests issued by the running loadGameMetadata()
    result,       \* value loadGameMetadata() returns
    tried,        \* strategies attempted so far, in order
    anyNull,      \* some loadGameMetadata() of this run returned null
    shown,        \* what renderGames() put in the container
    \* ---- AdminPanel ----
    isElectron,
    adminGames,      \* this.games of AdminPanel
    selectedGameId,
    selectedImage,
    form,            \* the form inputs
    listeners,       \* click listeners attached by setupEventListeners
    cards,           \* ids of the cards renderGames() drew
    tasks,           \* suspended async operations
    stats,           \* the three displayed counters
    alerts,          \* notices shown by the last step
    opCount,         \* user operations started
    saveGamesCalls,  \* invocations of window.api.admin.saveGames
    jsonCalls,       \* invocations of saveGamesJSON
    publishCalls,    \* invocations of window.api.admin.publishGames
    uncaught,        \* an async handler rejected
    folderFound,     \* records the game/ folders of this host hold
    disk             \* the document served as data/games.json

libVars == <<variant, envResp, pc, games, folders, fi, lpc, folderName,
             metaResp, metadata, ci, usedCover, coverReq, result, tried,
             anyNull, shown>>

adminVars == <<isElectron, adminGames, selectedGameId, selectedImage, form,
               listeners, cards, tasks, stats, alerts, opCount,
               saveGamesCalls, jsonCalls, publishCalls, uncaught,
               folderFound, disk>>

vars == <<variant, envResp, pc, games, folders, fi, lpc, folderName,
          metaResp, metadata, ci, usedCover, coverReq, result, tried,
          anyNull, shown,
          isElectron, adminGames, selectedGameId, selectedImage, form,
          listeners, cards, tasks, stats, alerts, opCount,
          saveGamesCalls, jsonCalls, publishCalls, uncaught,
          folderFound, disk>>

(***************************************************************************)
(* JavaScript values                                                       *)
(***************************************************************************)
Undef == [t |-> "undef"]

Null == [t |-> "null"]

Str(s) == [t |-> "str", v |-> s]

Bool(b) == [t |-> "bool", v |-> b]

Num(n) == [t |-> "num", v |-> n]

\* ToBoolean
Truthy(x) ==
    CASE x.t = "undef" -> FALSE
      [] x.t = "null" -> FALSE
      [] x.t = "str" -> x.v # <<>>
      [] x.t = "bool" -> x.v
      [] x.t = "num" -> x.v # 0
      [] OTHER -> TRUE

\* a || b
Or(a, b) == IF Truthy(a) THEN a ELSE b

Range(s) == {s[i] : i \in 1..Len(s)}

(***************************************************************************)
(* HTTP responses                                                          *)
(***************************************************************************)
Throw == [kind |-> "throw"]

Http(ok, body) == [kind |-> "http", ok |-> ok, body |-> body]

BadBody == [t |-> "bad"]

ArrayBody(v) == [t |-> "array", v |-> v]

ObjectBody(v) == [t |-> "object", v |-> v]

TextBody(v) == [t |-> "text", v |-> v]

HtmlBody(links) == [t |-> "html", v |-> links]

\* response.json() succeeds
JsonParses(body) == body.t \in {"array", "object", "null"}

(***************************************************************************)
(* Identifiers and probe documents                                         *)
(***************************************************************************)
IdA == <<"a">>

IdB == <<"b">>

Mario == <<"m", "a", "r", "i", "o">>

Whitespace == {" ", "\r", "\n", "\t"}

RECURSIVE TrimLeft(_)
TrimLeft(s) ==
    IF s # <<>> /\ Head(s) \in Whitespace THEN TrimLeft(Tail(s)) ELSE s

RECURSIVE TrimRight(_)
TrimRight(s) ==
    IF s # <<>> /\ s[Len(s)] \in Whitespace
    THEN TrimRight(SubSeq(s, 1, Len(s) - 1))
    ELSE s

\* String.prototype.trim
Trim(s) == TrimRight(TrimLeft(s))

\* the optional \r of the separator /\r?\n/
StripCR(line) ==
    IF line # <<>> /\ line[Len(line)] = "\r"
    THEN SubSeq(line, 1, Len(line) - 1)
    ELSE line

RECURSIVE SplitFrom(_, _)
SplitFrom(text, cur) ==
    IF text = <<>> THEN <<cur>>
    ELSE IF Head(text) = "\n"
         THEN <<StripCR(cur)>> \o SplitFrom(Tail(text), <<>>)
         ELSE SplitFrom(Tail(text), Append(cur, Head(text)))

\* text.split(/\r?\n/)
SplitLines(text) == SplitFrom(text, <<>>)

NonEmptyLine(l) == l # <<>>

\* the index lines without the filter(Boolean)
IndexFolders_KeepsEmpty(text) ==
    LET lines == SplitLines(text)
    IN [i \in 1..Len(lines) |-> Trim(lines[i])]

\* text.split(/\r?\n/).map(s => s.trim()).filter(Boolean)
IndexFolders(text) ==
    LET lines == SplitLines(text)
        trimmed == [i \in 1..Len(lines) |-> Trim(lines[i])]
    IN SelectSeq(trimmed, NonEmptyLine)

IsDir(item) == item.type = "dir"

\* contents.filter(item => item.type === 'dir').map(item => item.name)
DirNames(contents) ==
    LET dirs == SelectSeq(contents, IsDir)
    IN [i \in 1..Len(dirs) |-> dirs[i].name]

\* the href test of the directory-listing loop of GameLibrary
IsFolderHref(href) ==
    /\ href # <<>>
    /\ "." \notin Range(href)
    /\ href # <<"/">>
    /\ href # <<".", ".", "/">>
    /\ href # <<"g", "a", "m", "e", "/">>

\* href.replace(/\/$/, '')
StripSlash(href) ==
    IF href # <<>> /\ href[Len(href)] = "/"
    THEN SubSeq(href, 1, Len(href) - 1)
    ELSE href

\* the identifiers the directory-listing loop hands to loadGameMetadata
LinkFolders(links) ==
    LET kept == SelectSeq(links, IsFolderHref)
    IN [i \in 1..Len(kept) |-> StripSlash(kept[i])]

\* doc.querySelectorAll('a') of the parsed response text
Links(body) == IF body.t = "html" THEN body.v ELSE <<>>

ManifestResponses ==
    { Throw, Http(FALSE, BadBody), Http(TRUE, BadBody),
      Http(TRUE, ObjectBody(<<>>)),
      Http(TRUE, ArrayBody(<<>>)),
      Http(TRUE, ArrayBody(<<IdA>>)),
      Http(TRUE, ArrayBody(<<IdA, IdB>>)),
      Http(TRUE, ArrayBody(<<IdA, IdA>>)) }

ListingResponses ==
    { Throw, Http(FALSE, BadBody),
      Http(TRUE, HtmlBody(<<>>)),
      Http(TRUE, HtmlBody(<< <<".", ".", "/">>, <<"a", "/">>, <<"b">> >>)),
      Http(TRUE, HtmlBody(<< <<"/">>, <<"x", ".", "t">>, <<"b", "/">> >>)),
      Http(FALSE, HtmlBody(<< <<>>, <<"g", "a", "m", "e", "/">> >>)),
      Http(TRUE, HtmlBody(<< <<"a", "/">>, <<"a">> >>)) }

IndexResponses ==
    { Throw, Http(FALSE, TextBody(<<"n", "o">>)),
      Http(TRUE, TextBody(<<>>)),
      Http(TRUE, TextBody(<<"\n", " ", "\r", "\n">>)),
      Http(TRUE, TextBody(<<"a", "\n", "\n", "b", "\n">>)),
      Http(TRUE, TextBody(<<"a", "\r", "\n", " ", "b", " ">>)),
      Http(TRUE, TextBody(<<"a", "\n", "a">>)) }

File(n) == [type |-> "file", name |-> n]

Dir(n) == [type |-> "dir", name |-> n]

ApiResponses ==
    { Throw, Http(FALSE, ObjectBody(<<>>)), Http(TRUE, BadBody),
      Http(TRUE, ObjectBody(<<>>)),
      Http(TRUE, ArrayBody(<<>>)),
      Http(TRUE, ArrayBody(<<File(<<"x", ".", "t">>)>>)),
      Http(TRUE, ArrayBody(<<File(IdA), Dir(IdB)>>)),
      Http(TRUE, ArrayBody(<<Dir(IdA), File(<<"x", ".", "t">>), Dir(IdB)>>)) }

Variants == {"manifestFirst", "indexFirst", "apiFirst"}

\* the strategies of each script, in the order its code tries them
Priority(v) ==
    CASE v = "manifestFirst" -> <<"manifest", "listing">>
      [] v = "indexFirst" -> <<"index", "api", "fallback">>
      [] v = "apiFirst" -> <<"api", "manifest", "fallback">>

\* the hard-coded fallback list
FallbackList == <<Mario>>

(***************************************************************************)
(* Entry loader                                                            *)
(***************************************************************************)
BasePath(v) == IF v = "manifestFirst" THEN "game/" ELSE "games/"

CacheBust(v) == IF v = "indexFirst" THEN <<"?t=">> ELSE <<>>

\* coverCandidates
CoverCandidates(v, f) ==
    << <<BasePath(v)>> \o f \o <<"/cover.png">> \o CacheBust(v),
       <<"../png/unknown.png">> \o CacheBust(v),
       <<"png/unknown.png">> \o CacheBust(v) >>

\* loadGameMetadata without the if (!jsonResponse.ok) return null
MetaOutcome_NoStatusCheck(r) ==
    IF r.kind = "throw" THEN "catch"
    ELSE IF JsonParses(r.body) THEN "parsed"
    ELSE "catch"

\* what loadGameMetadata does with the github.json response: the fetch or
\* jsonResponse.json() throws, the status is not ok, or metadata is bound
MetaOutcome(r) ==
    IF r.kind = "throw" THEN "catch"
    ELSE IF ~r.ok THEN "notfound"
    ELSE IF JsonParses(r.body) THEN "parsed"
    ELSE "catch"

\* the cover loop without its break
CoverStep_NoBreak(i, cover, url, r) ==
    IF r.kind = "http" /\ r.ok
    THEN [ci |-> i + 1, usedCover |-> Str(url)]
    ELSE [ci |-> i + 1, usedCover |-> cover]

\* if (r.ok) { usedCover = url; break; }
CoverStep(i, cover, url, r) ==
    IF r.kind = "http" /\ r.ok
    THEN [ci |-> 4, usedCover |-> Str(url)]
    ELSE [ci |-> i + 1, usedCover |-> cover]

\* the record with the size default applied to a missing version
MakeEntry_WrongDefault(f, m, cover) ==
    [ id |-> f,
      name |-> Or(m.name, Str(f)),
      description |-> Or(m.description, Str(<<"No description available">>)),
      version |-> Or(m.version, Str(<<"Unknown">>)),
      downloadUrl |-> Or(m.downloadUrl, Str(<<"#">>)),
      size |-> Or(m.size, Str(<<"Unknown">>)),
      cover |-> cover,
      comingSoon |-> Or(m.comingSoon, Bool(FALSE)) ]

\* the record loadGameMetadata returns
MakeEntry(f, m, cover) ==
    [ id |-> f,
      name |-> Or(m.name, Str(f)),
      description |-> Or(m.description, Str(<<"No description available">>)),
      version |-> Or(m.version, Str(<<"1.0.0">>)),
      downloadUrl |-> Or(m.downloadUrl, Str(<<"#">>)),
      size |-> Or(m.size, Str(<<"Unknown">>)),
      cover |-> cover,
      comingSoon |-> Or(m.comingSoon, Bool(FALSE)) ]

Doc(n, d, v, u, s, c) ==
    [name |-> n, description |-> d, version |-> v, downloadUrl |-> u,
     size |-> s, comingSoon |-> c]

EmptyDoc == Doc(Undef, Undef, Undef, Undef, Undef, Undef)

\* the value jsonResponse.json() resolves to: an object, null, or an array
\* (which has none of the six fields)
ParsedBody(body) ==
    CASE body.t = "object" -> body.v
      [] body.t = "array" -> EmptyDoc
      [] OTHER -> Null

\* the return statement: reading a field of null throws into the catch
EntryOrNull(f, m, cover) == IF m = Null THEN Null ELSE MakeEntry(f, m, cover)

FullDoc ==
    Doc(Str(<<"N">>), Str(<<"D">>), Str(<<"2">>), Str(<<"U">>),
        Str(<<"S">>), Bool(TRUE))

SmallDocs == {EmptyDoc, FullDoc}

\* every field missing, falsy or truthy
AllDocs ==
    { Doc(n, d, v, u, s, c) :
        n \in {Undef, Str(<<>>), Str(<<"N">>)},
        d \in {Undef, Null, Str(<<"D">>)},
        v \in {Undef, Num(0), Str(<<"2">>)},
        u \in {Undef, Str(<<>>), Str(<<"U">>)},
        s \in {Undef, Bool(FALSE), Str(<<"S">>)},
        c \in {Undef, Bool(FALSE), Bool(TRUE)} }

MetaResponses(Docs) ==
    { Throw, Http(FALSE, BadBody), Http(FALSE, ObjectBody(FullDoc)),
      Http(TRUE, BadBody), Http(TRUE, Null), Http(TRUE, ArrayBody(<<>>)) }
    \cup { Http(TRUE, ObjectBody(d)) : d \in Docs }

CoverResponses == {Throw, Http(FALSE, BadBody), Http(TRUE, BadBody)}

LoopPcs ==
    {"A_manifestLoop", "A_listingLoop", "B_indexLoop", "B_apiLoop",
     "B_fallbackLoop", "C_apiLoop", "C_manifestLoop", "C_elseFallbackLoop",
     "C_catchFallbackLoop"}

(***************************************************************************)
(* GameLibrary: scanGameFolders, loadGameMetadata, renderGames             *)
(***************************************************************************)
loaderVars == <<lpc, folderName, metaResp, metadata, ci, usedCover, coverReq,
                result, anyNull>>

StartLoop(fs, p) == folders' = fs /\ fi' = 1 /\ pc' = p

Goto(p) == pc' = p /\ UNCHANGED <<folders, fi>>

ProbeFrame == UNCHANGED <<variant, envResp, games, loaderVars, shown>>

\* part_000: fetch('game/games.json')
A_ManifestProbe ==
    /\ pc = "A_manifest"
    /\ tried' = Append(tried, "manifest")
    /\ LET r == envResp["manifest"] IN
         IF r.kind = "throw" THEN Goto("render")
         ELSE IF r.ok
              THEN IF ~JsonParses(r.body) THEN Goto("render")
                   ELSE IF r.body.t = "array"
                        THEN StartLoop(r.body.v, "A_manifestLoop")
                        ELSE Goto("A_listing")
              ELSE Goto("A_listing")
    /\ ProbeFrame /\ UNCHANGED adminVars

\* part_000: fetch('game/') and the walk over its links
A_ListingProbe ==
    /\ pc = "A_listing"
    /\ tried' = Append(tried, "listing")
    /\ LET r == envResp["listing"] IN
         IF r.kind = "throw" THEN Goto("render")
         ELSE StartLoop(LinkFolders(Links(r.body)), "A_listingLoop")
    /\ ProbeFrame /\ UNCHANGED adminVars

\* part_000: end of either for-loop (return, or fall out of the try)
A_LoopEnd ==
    /\ pc \in {"A_manifestLoop", "A_listingLoop"}
    /\ lpc = "idle" /\ fi > Len(folders)
    /\ Goto("render")
    /\ UNCHANGED tried
    /\ ProbeFrame /\ UNCHANGED adminVars

\* gamecode.js (first class): fetch(indexUrl)
B_IndexProbe ==
    /\ pc = "B_index"
    /\ tried' = Append(tried, "index")
    /\ LET r == envResp["index"] IN
         IF r.kind = "throw" THEN Goto("B_api")
         ELSE IF r.ok
              THEN StartLoop(IndexFolders(r.body.v), "B_indexLoop")
              ELSE Goto("B_api")
    /\ ProbeFrame /\ UNCHANGED adminVars

\* the index loop without its if (this.games.length > 0) return;
B_IndexLoopEnd_NoReturn ==
    /\ pc = "B_indexLoop"
    /\ lpc = "idle" /\ fi > Len(folders)
    /\ Goto("B_api")
    /\ UNCHANGED tried
    /\ ProbeFrame /\ UNCHANGED adminVars

\* gamecode.js (first class): if (this.games.length > 0) return;
B_IndexLoopEnd ==
    /\ pc = "B_indexLoop"
    /\ lpc = "idle" /\ fi > Len(folders)
    /\ IF Len(games) > 0 THEN Goto("render") ELSE Goto("B_api")
    /\ UNCHANGED tried
    /\ ProbeFrame /\ UNCHANGED adminVars

\* gamecode.js (first class): fetch(apiUrl)
B_ApiProbe ==
    /\ pc = "B_api"
    /\ LET r == envResp["api"]
           usable == r.kind = "http" /\ r.ok /\ r.body.t = "array" IN
         IF usable
         THEN /\ StartLoop(DirNames(r.body.v), "B_apiLoop")
              /\ tried' = Append(tried, "api")
         ELSE /\ StartLoop(FallbackList, "B_fallbackLoop")
              /\ tried' = tried \o <<"api", "fallback">>
    /\ ProbeFrame /\ UNCHANGED adminVars

\* gamecode.js (first class): if (this.games.length > 0) return;
B_ApiLoopEnd ==
    /\ pc = "B_apiLoop"
    /\ lpc = "idle" /\ fi > Len(folders)
    /\ IF Len(games) > 0
       THEN Goto("render") /\ UNCHANGED tried
       ELSE /\ StartLoop(FallbackList, "B_fallbackLoop")
            /\ tried' = Append(tried, "fallback")
    /\ ProbeFrame /\ UNCHANGED adminVars

\* gamecode.js (first class): end of the fallback loop
B_FallbackLoopEnd ==
    /\ pc = "B_fallbackLoop"
    /\ lpc = "idle" /\ fi > Len(folders)
    /\ Goto("render")
    /\ UNCHANGED tried
    /\ ProbeFrame /\ UNCHANGED adminVars

\* gamecode.js (second class): fetch(apiUrl)
C_ApiProbe ==
    /\ pc = "C_api"
    /\ LET r == envResp["api"] IN
         IF r.kind = "throw" \/ (r.ok /\ r.body.t # "array")
         THEN /\ StartLoop(FallbackList, "C_catchFallbackLoop")
              /\ tried' = tried \o <<"api", "fallback">>
         ELSE IF r.ok /\ Len(DirNames(r.body.v)) > 0
              THEN /\ StartLoop(DirNames(r.body.v), "C_apiLoop")
                   /\ tried' = Append(tried, "api")
              ELSE /\ Goto("C_manifest")
                   /\ tried' = Append(tried, "api")
    /\ ProbeFrame /\ UNCHANGED adminVars

\* gamecode.js (second class): fetch(base + 'games.json')
C_ManifestProbe ==
    /\ pc = "C_manifest"
    /\ LET r == envResp["manifest"] IN
         IF r.kind = "throw" \/ (r.ok /\ ~JsonParses(r.body))
         THEN /\ StartLoop(FallbackList, "C_catchFallbackLoop")
              /\ tried' = tried \o <<"manifest", "fallback">>
         ELSE IF r.ok
              THEN /\ tried' = Append(tried, "manifest")
                   /\ IF r.body.t = "array" /\ Len(r.body.v) > 0
                      THEN StartLoop(r.body.v, "C_manifestLoop")
                      ELSE Goto("render")
              ELSE /\ StartLoop(FallbackList, "C_elseFallbackLoop")
                   /\ tried' = tried \o <<"manifest", "fallback">>
    /\ ProbeFrame /\ UNCHANGED adminVars

\* gamecode.js (second class): end of any of its for-loops
C_LoopEnd ==
    /\ pc \in {"C_apiLoop", "C_manifestLoop", "C_elseFallbackLoop",
               "C_catchFallbackLoop"}
    /\ lpc = "idle" /\ fi > Len(folders)
    /\ Goto("render")
    /\ UNCHANGED tried
    /\ ProbeFrame /\ UNCHANGED adminVars

LoaderFrame ==
    UNCHANGED <<variant, envResp, pc, folders, tried, shown>>

\* loadGameMetadata(folderName) up to the parsed github.json
FetchMetadata(Docs) ==
    /\ pc \in LoopPcs /\ lpc = "idle" /\ fi <= Len(folders)
    /\ \E r \in MetaResponses(Docs) :
         /\ folderName' = folders[fi]
         /\ metaResp' = r
         /\ coverReq' = <<>>
         /\ usedCover' = Null
         /\ ci' = 1
         /\ IF MetaOutcome(r) = "parsed"
            THEN /\ metadata' = ParsedBody(r.body)
                 /\ lpc' = "cover"
                 /\ result' = Null
            ELSE /\ metadata' = EmptyDoc
                 /\ lpc' = "ret"
                 /\ result' = Null
    /\ UNCHANGED <<games, fi, anyNull>>
    /\ LoaderFrame /\ UNCHANGED adminVars

\* one iteration of the cover loop; the entry is built when the loop ends
FetchCover ==
    /\ lpc = "cover" /\ ci <= 3
    /\ \E r \in CoverResponses :
         LET url == CoverCandidates(variant, folderName)[ci]
             st == CoverStep(ci, usedCover, url, r) IN
           /\ coverReq' = Append(coverReq, [url |-> url, ok |-> r.kind = "http" /\ r.ok])
           /\ ci' = st.ci
           /\ usedCover' = st.usedCover
           /\ IF st.ci > 3
              THEN /\ result' = EntryOrNull(folderName, metadata, st.usedCover)
                   /\ lpc' = "ret"
              ELSE UNCHANGED <<result, lpc>>
    /\ UNCHANGED <<games, fi, folderName, metaResp, metadata, anyNull>>
    /\ LoaderFrame /\ UNCHANGED adminVars

\* the loop with this.games.unshift(game) in place of push
LoaderReturn_Unshift ==
    /\ lpc = "ret"
    /\ games' = IF result # Null THEN <<result>> \o games ELSE games
    /\ anyNull' = (anyNull \/ result = Null)
    /\ fi' = fi + 1
    /\ lpc' = "idle"
    /\ UNCHANGED <<folderName, metaResp, metadata, ci, usedCover, coverReq, result>>
    /\ LoaderFrame /\ UNCHANGED adminVars

\* const game = await this.loadGameMetadata(...); if (game) this.games.push(game);
LoaderReturn ==
    /\ lpc = "ret"
    /\ games' = IF result # Null THEN Append(games, result) ELSE games
    /\ anyNull' = (anyNull \/ result = Null)
    /\ fi' = fi + 1
    /\ lpc' = "idle"
    /\ UNCHANGED <<folderName, metaResp, metadata, ci, usedCover, coverReq, result>>
    /\ LoaderFrame /\ UNCHANGED adminVars

\* renderGames of GameLibrary
RenderGames ==
    /\ pc = "render"
    /\ shown' = IF Len(games) = 0 THEN "No games found" ELSE "cards"
    /\ pc' = "done"
    /\ UNCHANGED <<variant, envResp, games, folders, fi, tried, loaderVars>>
    /\ UNCHANGED adminVars

FirstPc(v) ==
    CASE v = "manifestFirst" -> "A_manifest"
      [] v = "indexFirst" -> "B_index"
      [] v = "apiFirst" -> "C_api"

\* the probes a script consults; the others are never requested
EnvFor(v) ==
    CASE v = "manifestFirst" ->
           { [manifest |-> m, listing |-> l, index |-> Throw, api |-> Throw] :
               m \in ManifestResponses, l \in ListingResponses }
      [] v = "indexFirst" ->
           { [manifest |-> Throw, listing |-> Throw, index |-> i, api |-> a] :
               i \in IndexResponses, a \in ApiResponses }
      [] v = "apiFirst" ->
           { [manifest |-> m, listing |-> Throw, index |-> Throw, api |-> a] :
               m \in ManifestResponses, a \in ApiResponses }

LoaderIdle ==
    /\ lpc = "idle"
    /\ folderName = <<>>
    /\ metaResp = Throw
    /\ metadata = EmptyDoc
    /\ ci = 1
    /\ usedCover = Null
    /\ coverReq = <<>>
    /\ result = Null
    /\ anyNull = FALSE

\* no AdminPanel on the page
AdminAbsent ==
    /\ isElectron = FALSE
    /\ adminGames = <<>>
    /\ selectedGameId = Null
    /\ selectedImage = Null
    /\ form = <<>>
    /\ listeners = FALSE
    /\ cards = <<>>
    /\ tasks = {}
    /\ stats = <<>>
    /\ alerts = <<>>
    /\ opCount = 0
    /\ saveGamesCalls = 0
    /\ jsonCalls = 0
    /\ publishCalls = 0
    /\ uncaught = FALSE
    /\ folderFound = <<>>
    /\ disk = Null

\* new GameLibrary()
LibInit ==
    /\ variant \in Variants
    /\ envResp \in EnvFor(variant)
    /\ pc = FirstPc(variant)
    /\ games = <<>>
    /\ folders = <<>>
    /\ fi = 1
    /\ tried = <<>>
    /\ shown = "none"
    /\ LoaderIdle
    /\ AdminAbsent

LibNext ==
    \/ A_ManifestProbe \/ A_ListingProbe \/ A_LoopEnd
    \/ B_IndexProbe \/ B_IndexLoopEnd \/ B_ApiProbe \/ B_ApiLoopEnd
    \/ B_FallbackLoopEnd
    \/ C_ApiProbe \/ C_ManifestProbe \/ C_LoopEnd
    \/ FetchMetadata(SmallDocs) \/ FetchCover \/ LoaderReturn
    \/ RenderGames

SpecLib == LibInit /\ [][LibNext]_vars

\* one loadGameMetadata call of each script, over every metadata document
LoaderInit ==
    /\ variant \in Variants
    /\ envResp = IF variant = "manifestFirst"
                 THEN [manifest |-> Http(TRUE, ArrayBody(<<IdA>>)),
                       listing |-> Throw, index |-> Throw, api |-> Throw]
                 ELSE [manifest |-> Throw, listing |-> Throw,
                       index |-> Throw, api |-> Throw]
    /\ pc = CASE variant = "manifestFirst" -> "A_manifestLoop"
              [] variant = "indexFirst" -> "B_fallbackLoop"
              [] variant = "apiFirst" -> "C_catchFallbackLoop"
    /\ folders = IF variant = "manifestFirst" THEN <<IdA>> ELSE FallbackList
    /\ tried = CASE variant = "manifestFirst" -> <<"manifest">>
                 [] variant = "indexFirst" -> <<"index", "api", "fallback">>
                 [] variant = "apiFirst" -> <<"api", "fallback">>
    /\ games = <<>>
    /\ fi = 1
    /\ shown = "none"
    /\ LoaderIdle
    /\ AdminAbsent

LoaderNext == FetchMetadata(AllDocs) \/ FetchCover \/ LoaderReturn

SpecLoader == LoaderInit /\ [][LoaderNext]_vars

(***************************************************************************)
(* AdminPanel                                                              *)
(***************************************************************************)
MaxOps == 2

GenIds == <<"g1", "g2", "g3", "g4", "g5", "g6", "g7", "g8">>

\* `g${Date.now()}`: an identifier no earlier save produced
GenId(n) == GenIds[n + 1]

List(v) == [t |-> "list", v |-> v]

DiskA ==
    [id |-> "A", name |-> "NA", desc |-> "DA", downloadUrl |-> "UA",
     size |-> "SA", version |-> "1.0.0", comingSoon |-> FALSE, image |-> Null]

DiskB ==
    [id |-> "B", name |-> "NB", desc |-> "DB", downloadUrl |-> "UB",
     size |-> "SB", version |-> "1.0.0", comingSoon |-> TRUE,
     image |-> Str(<<"imgB">>)]

EmptyForm ==
    [gameId |-> "", gameName |-> "", gameDesc |-> "", gameUrl |-> "",
     gameSize |-> "", gameVersion |-> "1.0.0", comingSoon |-> FALSE]

Typed(n, d, u, s, v, c) ==
    [gameName |-> n, gameDesc |-> d, gameUrl |-> u, gameSize |-> s,
     gameVersion |-> v, comingSoon |-> c]

\* the operator clicks without typing
NoTyping == [none |-> TRUE]

\* the form inputs once the operator has typed x (the id input is only ever
\* set by selectGame and resetForm)
Filled(f, x) ==
    IF x = NoTyping THEN f
    ELSE [gameId |-> f.gameId, gameName |-> x.gameName,
          gameDesc |-> x.gameDesc, gameUrl |-> x.gameUrl,
          gameSize |-> x.gameSize, gameVersion |-> x.gameVersion,
          comingSoon |-> x.comingSoon]

\* what the operator types into the form
TypedInputs ==
    { Typed("N2", "D2", "U2", "", "2.0", TRUE),
      Typed("", "D1", "U1", "", "1.0.0", FALSE),
      Typed("N1", "", "U1", "", "1.0.0", FALSE),
      Typed("N1", "D1", "", "", "1.0.0", FALSE) }

GhInput(o, r, p, k, m) ==
    [owner |-> o, repo |-> r, filePath |-> p, token |-> k, message |-> m]

\* what the operator types into the publish inputs
GhInputs ==
    { GhInput(<<"o">>, <<"r">>, <<"p">>, <<"k">>, <<"m">>),
      GhInput(<<" ", "o", " ">>, <<"r">>, <<>>, <<"k">>, <<" ">>),
      GhInput(<<"o">>, <<"r">>, <<"p">>, <<" ">>, <<"m">>) }

Alert(msg, type) == [msg |-> msg, type |-> type]

Ids(list) == [i \in 1..Len(list) |-> list[i].id]

NotComingSoon(g) == ~g.comingSoon

IsComingSoon(g) == g.comingSoon

\* updateStats counting every record as active
StatsOf_ActiveIsTotal(list) ==
    [total |-> Len(list),
     active |-> Len(list),
     comingSoon |-> Len(SelectSeq(list, IsComingSoon))]

\* the three counters updateStats writes
StatsOf(list) ==
    [total |-> Len(list),
     active |-> Len(SelectSeq(list, NotComingSoon)),
     comingSoon |-> Len(SelectSeq(list, IsComingSoon))]

\* this.games.findIndex(g => g.id === id), 0 for -1
FindIndex(list, id) ==
    LET hits == {i \in 1..Len(list) : list[i].id = id}
    IN IF hits = {} THEN 0 ELSE CHOOSE i \in hits : \A j \in hits : i <= j

\* setupEventListeners attaching the handlers to every build
ListenersAttached_Always(electron) == TRUE

\* setupEventListeners: handlers are attached only with the preload API
ListenersAttached(electron) == electron

\* renderGames: Edit/Delete buttons are drawn only with the preload API
CardButtons(electron) == electron

\* the required-field test without the download URL
FormValid_NoUrl(f) == f.gameName # "" /\ f.gameDesc # ""

\* !(!gameName || !gameDesc || !gameUrl)
FormValid(f) == f.gameName # "" /\ f.gameDesc # "" /\ f.gameUrl # ""

\* newGame of saveGame
NewGame(f, list, image, fresh) ==
    LET idx == FindIndex(list, f.gameId) IN
    [ id |-> IF f.gameId # "" THEN f.gameId ELSE fresh,
      name |-> f.gameName,
      desc |-> f.gameDesc,
      downloadUrl |-> f.gameUrl,
      size |-> IF f.gameSize # "" THEN f.gameSize ELSE "Unknown",
      version |-> f.gameVersion,
      comingSoon |-> f.comingSoon,
      image |-> IF image # Null THEN image
                ELSE IF f.gameId # "" /\ idx > 0 /\ Truthy(list[idx].image)
                     THEN list[idx].image
                     ELSE Null ]

\* the list after the if (gameId) { ... } else { push } of saveGame
Upsert(list, f, g) ==
    IF f.gameId # ""
    THEN LET idx == FindIndex(list, f.gameId) IN
         IF idx > 0 THEN [list EXCEPT ![idx] = g] ELSE list
    ELSE Append(list, g)

\* the filter with === in place of !==
RemoveId_KeepsOnlyId(list, id) ==
    LET Keep(g) == g.id = id IN SelectSeq(list, Keep)

\* this.games.filter(g => g.id !== gameId)
RemoveId(list, id) ==
    LET Keep(g) == g.id # id IN SelectSeq(list, Keep)

\* scanGameFolder: games.length > 0 ? games : null, and null from the catch
ScanResult(threw, found) ==
    IF threw THEN Null
    ELSE IF Len(found) > 0 THEN List(found) ELSE Null

\* the answers fetch('data/games.json') can get
FallbackResponses(d) ==
    {Throw, Http(TRUE, BadBody)}
    \cup (IF d = Null THEN {Http(FALSE, BadBody)} ELSE {Http(TRUE, ObjectBody(d))})

\* if (folderGames && folderGames.length > 0)
UseFolderGames(fg) == fg # Null /\ Len(fg.v) > 0

\* a suspended async call: handed is the list it gave (or, for a reload,
\* its caller gave) to the host bridge, arg its other locals
Task(tid, kind, p, handed, failed, arg, found) ==
    [tid |-> tid, kind |-> kind, pc |-> p, handed |-> handed,
     failed |-> failed, clean |-> TRUE, arg |-> arg, found |-> found]

NoArg == [t |-> "none"]

Tids(ts) == {t.tid : t \in ts}

\* the smallest task number not in use
FreeTid(ts) ==
    CHOOSE n \in 1..(Cardinality(ts) + 1) :
        n \notin Tids(ts) /\ \A m \in 1..(n - 1) : m \in Tids(ts)

Dirty(ts) == {[t EXCEPT !.clean = FALSE] : t \in ts}

AdminLibFrame == UNCHANGED libVars

\* what the page is served from: game folders with package.json files, or
\* only a data/games.json, with or without its games key
Hosts ==
    { [found |-> <<DiskA, DiskB>>, disk |-> Null],
      [found |-> <<>>, disk |-> [games |-> Undef]],
      [found |-> <<>>, disk |-> [games |-> List(<<DiskA>>)]] }

\* new AdminPanel(): init() has started loadGames and run setupEventListeners
AdminInit ==
    /\ isElectron \in BOOLEAN
    /\ \E e \in Hosts : folderFound = e.found /\ disk = e.disk
    /\ adminGames = <<>>
    /\ selectedGameId = Null
    /\ selectedImage = Null
    /\ form = EmptyForm
    /\ listeners = ListenersAttached(isElectron)
    /\ cards = <<>>
    /\ tasks = {Task(1, "load", "scan", <<>>, FALSE, NoArg, FALSE)}
    /\ stats = StatsOf(<<>>)
    /\ alerts = <<>>
    /\ opCount = 0
    /\ saveGamesCalls = 0
    /\ jsonCalls = 0
    /\ publishCalls = 0
    /\ uncaught = FALSE
    /\ variant = "manifestFirst"
    /\ envResp = [manifest |-> Throw, listing |-> Throw, index |-> Throw,
                  api |-> Throw]
    /\ pc = "done"
    /\ games = <<>>
    /\ folders = <<>>
    /\ fi = 1
    /\ tried = <<>>
    /\ shown = "none"
    /\ LoaderIdle

\* loadGames resumes after await this.scanGameFolder(), the scan having
\* thrown or not
LoadScanSettleWith(threw) ==
    \E t \in tasks :
      /\ t.kind = "load" /\ t.pc = "scan"
      /\ LET fg == ScanResult(threw, folderFound) IN
           IF UseFolderGames(fg)
           THEN /\ adminGames' = fg.v
                /\ cards' = Ids(fg.v)
                /\ stats' = StatsOf(fg.v)
                /\ tasks' = Dirty(tasks \ {t})
           ELSE /\ tasks' = (tasks \ {t}) \cup {[t EXCEPT !.pc = "fallback"]}
                /\ UNCHANGED <<adminGames, cards, stats>>
      /\ alerts' = <<>>
      /\ UNCHANGED <<isElectron, selectedGameId, selectedImage, form,
                     listeners, opCount, saveGamesCalls, jsonCalls,
                     publishCalls, uncaught,
                     folderFound, disk>>
      /\ AdminLibFrame

\* loadGames resumes after await this.scanGameFolder()
LoadScanSettle == \E threw \in BOOLEAN : LoadScanSettleWith(threw)

\* the catch of loadGames emptying this.games
LoadFallbackSettleWith_ClearsOnError(r) ==
    \E t \in tasks :
      /\ t.kind = "load" /\ t.pc = "fallback"
      /\ IF r.kind = "http" /\ r.body.t = "object"
           THEN LET data == r.body.v
                    list == IF Truthy(data.games) THEN data.games.v ELSE <<>> IN
                /\ adminGames' = list
                /\ cards' = Ids(list)
                /\ stats' = StatsOf(list)
                /\ alerts' = <<>>
                /\ tasks' = Dirty(tasks \ {t})
           ELSE /\ alerts' = <<Alert("Failed to load games", "error")>>
                /\ tasks' = tasks \ {t}
                /\ adminGames' = <<>>
                /\ UNCHANGED <<cards, stats>>
      /\ UNCHANGED <<isElectron, selectedGameId, selectedImage, form,
                     listeners, opCount, saveGamesCalls, jsonCalls,
                     publishCalls, uncaught,
                     folderFound, disk>>
      /\ AdminLibFrame

\* loadGames resumes after fetch('data/games.json') and response.json(),
\* the request having been answered with r
LoadFallbackSettleWith(r) ==
    \E t \in tasks :
      /\ t.kind = "load" /\ t.pc = "fallback"
      /\ IF r.kind = "http" /\ r.body.t = "object"
           THEN LET data == r.body.v
                    list == IF Truthy(data.games) THEN data.games.v ELSE <<>> IN
                /\ adminGames' = list
                /\ cards' = Ids(list)
                /\ stats' = StatsOf(list)
                /\ alerts' = <<>>
                /\ tasks' = Dirty(tasks \ {t})
           ELSE /\ alerts' = <<Alert("Failed to load games", "error")>>
                /\ tasks' = tasks \ {t}
                /\ UNCHANGED <<adminGames, cards, stats>>
      /\ UNCHANGED <<isElectron, selectedGameId, selectedImage, form,
                     listeners, opCount, saveGamesCalls, jsonCalls,
                     publishCalls, uncaught,
                     folderFound, disk>>
      /\ AdminLibFrame

\* loadGames resumes after fetch('data/games.json') and response.json()
LoadFallbackSettle ==
    \E r \in FallbackResponses(disk) : LoadFallbackSettleWith(r)

\* selectGame(gameId), from the Edit button of a drawn card
SelectGame ==
    /\ CardButtons(isElectron)
    /\ \E i \in 1..Len(cards) :
         LET idx == FindIndex(adminGames, cards[i]) IN
         IF idx = 0
         THEN UNCHANGED <<selectedGameId, selectedImage, form, cards>>
         ELSE LET g == adminGames[idx] IN
              /\ selectedGameId' = Str(g.id)
              /\ form' = [gameId |-> g.id, gameName |-> g.name,
                          gameDesc |-> g.desc, gameUrl |-> g.downloadUrl,
                          gameSize |-> g.size, gameVersion |-> g.version,
                          comingSoon |-> g.comingSoon]
              /\ selectedImage' = Null
              /\ cards' = Ids(adminGames)
    /\ alerts' = <<>>
    /\ UNCHANGED <<isElectron, adminGames, listeners, tasks, stats, opCount,
                   saveGamesCalls, jsonCalls, publishCalls,
                   uncaught, folderFound, disk>>
    /\ AdminLibFrame

\* resetForm, from the reset button
ResetForm ==
    /\ listeners
    /\ form' = EmptyForm
    /\ selectedImage' = Null
    /\ selectedGameId' = Null
    /\ cards' = Ids(adminGames)
    /\ alerts' = <<>>
    /\ UNCHANGED <<isElectron, adminGames, listeners, tasks, stats, opCount,
                   saveGamesCalls, jsonCalls, publishCalls,
                   uncaught, folderFound, disk>>
    /\ AdminLibFrame

FailAlert == Alert("Failed to save games to file", "error")

\* resetForm() and loadGames() after the awaited saveGamesJSON
Resume(t, ok, notices, threw) ==
    /\ form' = EmptyForm
    /\ selectedImage' = Null
    /\ selectedGameId' = Null
    /\ cards' = Ids(adminGames)
    /\ tasks' = (tasks \ {t}) \cup
                {[Task(FreeTid(tasks \ {t}), "load", "scan", t.handed, ~ok, NoArg, FALSE)
                    EXCEPT !.clean = t.clean]}
    /\ alerts' = (IF ok THEN <<>> ELSE <<FailAlert>>) \o notices
    /\ uncaught' = (uncaught \/ threw)
    /\ disk' = IF ok THEN [games |-> List(t.handed)] ELSE disk

\* saveGamesJSON, up to the call of window.api.admin.saveGames
Persist(list, kind, name, found, f) ==
    /\ adminGames' = list
    /\ jsonCalls' = jsonCalls + 1
    /\ opCount' = opCount + 1
    /\ IF isElectron
       THEN /\ saveGamesCalls' = saveGamesCalls + 1
            /\ tasks' = Dirty(tasks) \cup
                        {Task(FreeTid(tasks), kind, "saving", list, FALSE,
                              [name |-> name], found)}
            /\ alerts' = <<>>
            /\ form' = f
            /\ UNCHANGED <<selectedImage, selectedGameId, cards,
                           uncaught, disk>>
       ELSE /\ UNCHANGED <<saveGamesCalls, disk>>
            /\ form' = EmptyForm
            /\ selectedImage' = Null
            /\ selectedGameId' = Null
            /\ cards' = Ids(list)
            /\ tasks' = Dirty(tasks) \cup
                        {Task(FreeTid(tasks), "load", "scan", list, TRUE, NoArg, FALSE)}
            /\ alerts' = <<FailAlert>> \o
                         (IF found THEN <<Alert(kind, "success")>> ELSE <<>>)
            /\ uncaught' = (uncaught \/ ~found)

\* saveGame, from the save button after the operator typed x, up to
\* await this.saveGamesJSON()
SaveGame(x) ==
    /\ listeners
    /\ LET f == Filled(form, x) IN
         /\ IF ~FormValid(f)
            THEN /\ alerts' = <<Alert("Please fill all required fields (*)", "error")>>
                 /\ form' = f
                 /\ UNCHANGED <<adminGames, selectedGameId, selectedImage,
                                cards, tasks, opCount, saveGamesCalls,
                                jsonCalls, uncaught, disk>>
            ELSE /\ opCount < MaxOps
                 /\ LET g == NewGame(f, adminGames, selectedImage, GenId(opCount))
                    IN Persist(Upsert(adminGames, f, g), "save", f.gameName,
                               TRUE, f)
    /\ UNCHANGED <<isElectron, listeners, stats, publishCalls, folderFound>>
    /\ AdminLibFrame

\* saveGame resumes: resetForm, loadGames, success notice
SaveSettle ==
    /\ \E t \in tasks :
         /\ t.kind = "save"
         /\ \E ok \in BOOLEAN :
              Resume(t, ok, <<Alert("save", "success")>>, FALSE)
    /\ UNCHANGED <<isElectron, adminGames, listeners, stats, opCount,
                   saveGamesCalls, jsonCalls, publishCalls, folderFound>>
    /\ AdminLibFrame

\* deleteGame(gameId) with the answer given to confirm(), up to
\* await this.saveGamesJSON()
DeleteGameOf(gameId, confirmed) ==
    /\ CardButtons(isElectron)
    /\ IF ~confirmed
       THEN /\ alerts' = <<>>
            /\ UNCHANGED <<adminGames, selectedGameId, selectedImage, form,
                           cards, tasks, opCount, saveGamesCalls,
                           jsonCalls, uncaught, disk>>
       ELSE /\ opCount < MaxOps
            /\ LET idx == FindIndex(adminGames, gameId) IN
               Persist(RemoveId(adminGames, gameId), "delete",
                       IF idx > 0 THEN adminGames[idx].name ELSE "",
                       idx > 0, form)
    /\ UNCHANGED <<isElectron, listeners, stats, publishCalls, folderFound>>
    /\ AdminLibFrame

\* deleteGame, from the Delete button of a drawn card
DeleteGame ==
    \E i \in 1..Len(cards), confirmed \in BOOLEAN :
        DeleteGameOf(cards[i], confirmed)

\* deleteGame resumes: resetForm, loadGames, showAlert(game.name)
DeleteSettle ==
    /\ \E t \in tasks :
         /\ t.kind = "delete"
         /\ \E ok \in BOOLEAN :
              Resume(t, ok,
                     IF t.found THEN <<Alert("delete", "success")>> ELSE <<>>,
                     ~t.found)
    /\ UNCHANGED <<isElectron, adminGames, listeners, stats, opCount,
                   saveGamesCalls, jsonCalls, publishCalls, folderFound>>
    /\ AdminLibFrame

\* the trimmed input passed on without its || default
OrDefault_NoDefault(x, d) == x

\* x || d for a string x
OrDefault(x, d) == IF x # <<>> THEN x ELSE d

\* publishToGitHub with the publish inputs holding in, up to the awaited
\* publishGames
PublishToGitHubWith(in) ==
    /\ listeners
    /\ LET owner == Trim(in.owner)
             repo == Trim(in.repo)
             token == Trim(in.token)
             filePath == OrDefault(Trim(in.filePath), <<"data/games.json">>)
             message == OrDefault(Trim(in.message), <<"Update games.json via admin">>)
         IN
         IF owner = <<>> \/ repo = <<>> \/ token = <<>>
         THEN /\ alerts' = <<Alert("Please provide GitHub owner, repo and token to publish.", "error")>>
              /\ UNCHANGED <<tasks, opCount, publishCalls>>
         ELSE IF ~isElectron
         THEN /\ alerts' = <<Alert("Read-only mode: cannot publish to GitHub from public site.", "error")>>
              /\ UNCHANGED <<tasks, opCount, publishCalls>>
         ELSE /\ opCount < MaxOps
              /\ opCount' = opCount + 1
              /\ publishCalls' = publishCalls + 1
              /\ tasks' = tasks \cup
                          {Task(FreeTid(tasks), "publish", "publishing", adminGames,
                                FALSE,
                                [owner |-> owner, repo |-> repo,
                                 filePath |-> filePath, token |-> token,
                                 message |-> message,
                                 payload |-> [games |-> adminGames]],
                                TRUE)}
              /\ alerts' = <<>>
    /\ UNCHANGED <<isElectron, adminGames, selectedGameId, selectedImage, form,
                   listeners, cards, stats, saveGamesCalls, jsonCalls,
                   uncaught, folderFound, disk>>
    /\ AdminLibFrame

\* publishToGitHub, from the publish button
PublishToGitHub == \E in \in GhInputs : PublishToGitHubWith(in)

\* publishToGitHub resumes with the answer of publishGames
PublishSettle ==
    /\ \E t \in tasks :
         /\ t.kind = "publish"
         /\ tasks' = tasks \ {t}
         /\ \E res \in {"ok", "notok", "throw"} :
              alerts' = CASE res = "ok" ->
                               <<Alert("Published to GitHub successfully", "success")>>
                          [] res = "notok" ->
                               <<Alert("Failed to publish to GitHub: ", "error")>>
                          [] res = "throw" ->
                               <<Alert("Publish error: ", "error")>>
    /\ UNCHANGED <<isElectron, adminGames, selectedGameId, selectedImage, form,
                   listeners, cards, stats, opCount, saveGamesCalls,
                   jsonCalls, publishCalls, uncaught,
                   folderFound, disk>>
    /\ AdminLibFrame

AdminNext ==
    \/ LoadScanSettle \/ LoadFallbackSettle
    \/ SelectGame \/ ResetForm
    \/ (\E x \in TypedInputs \cup {NoTyping} : SaveGame(x)) \/ SaveSettle
    \/ DeleteGame \/ DeleteSettle
    \/ PublishToGitHub \/ PublishSettle

SpecAdmin == AdminInit /\ [][AdminNext]_vars

(***************************************************************************)
(* Properties of the GameLibrary scripts                                   *)
(***************************************************************************)
EntryIds(gs) == {gs[i].id : i \in 1..Len(gs)}

\* the identifier list a strategy yields for the answer its probe gets
StrategyIds(s) ==
    LET r == envResp[s] IN
    CASE s = "fallback" -> FallbackList
      [] s = "manifest" ->
           IF r.kind = "http" /\ r.ok /\ r.body.t = "array" THEN r.body.v ELSE <<>>
      [] s = "index" ->
           IF r.kind = "http" /\ r.ok THEN IndexFolders(r.body.v) ELSE <<>>
      [] s = "api" ->
           IF r.kind = "http" /\ r.ok /\ r.body.t = "array"
           THEN DirNames(r.body.v) ELSE <<>>
      [] s = "listing" ->
           IF r.kind = "http" THEN LinkFolders(Links(r.body)) ELSE <<>>

FirstNonEmptyIds ==
    LET p == Priority(variant)
        hits == {i \in 1..Len(p) : StrategyIds(p[i]) # <<>>}
    IN IF hits = {} THEN <<>>
       ELSE StrategyIds(p[CHOOSE i \in hits : \A j \in hits : i <= j])

\* the fetch or the parse of strategy s throws
ProbeThrew(s) ==
    /\ s # "fallback"
    /\ \/ envResp[s].kind = "throw"
       \/ envResp[s].ok /\ envResp[s].body.t = "bad"
       \/ s = "api" /\ envResp[s].ok /\ envResp[s].body.t # "array"

\* C1: when a run ends in which no probe threw and every metadata document
\* loaded, the ids in this.games are those of the first strategy, in the
\* script's priority order, whose list is non-empty (none when every list
\* is empty).
C1_FirstNonEmptyWins ==
    (pc = "done" /\ ~anyNull /\ \A s \in Range(tried) : ~ProbeThrew(s))
        => EntryIds(games) = Range(FirstNonEmptyIds)

\* C2: when the run ends, every strategy that follows an attempted strategy
\* whose fetch or parse threw has been attempted too.
C2_ThrowDoesNotSkip ==
    pc = "done" =>
        \A i \in 1..(Len(Priority(variant)) - 1) :
            LET s == Priority(variant)[i] IN
            (s \in Range(tried) /\ ProbeThrew(s))
                => Priority(variant)[i + 1] \in Range(tried)

MetaFetched ==
    metaResp.kind = "http" /\ metaResp.ok /\ JsonParses(metaResp.body)

\* C3: an entry is pushed only for the identifier whose github.json came
\* back with a success status and parsed; otherwise loadGameMetadata returns
\* null, this.games is untouched and the loop moves to the next identifier.
C3_MetadataRequired ==
    /\ [](lpc = "ret" /\ ~MetaFetched => result = Null)
    /\ [][ /\ (games' # games =>
                 /\ MetaFetched
                 /\ result.id = folderName
                 /\ folderName = folders[fi]
                 /\ games' = Append(games, result))
           /\ (lpc = "ret" /\ ~MetaFetched =>
                 /\ games' = games
                 /\ fi' = fi + 1
                 /\ lpc' = "idle"
                 /\ pc' = pc /\ folders' = folders) ]_vars

\* the first identifier of a two-identifier list failed, the second loaded
C3_Witness ==
    /\ lpc = "idle" /\ Len(folders) = 2 /\ fi = 3
    /\ folders[1] # folders[2]
    /\ anyNull
    /\ EntryIds(games) = {folders[2]}

C4_Default(field, f) ==
    CASE field = "name" -> Str(f)
      [] field = "description" -> Str(<<"No description available">>)
      [] field = "version" -> Str(<<"1.0.0">>)
      [] field = "downloadUrl" -> Str(<<"#">>)
      [] field = "size" -> Str(<<"Unknown">>)
      [] field = "comingSoon" -> Bool(FALSE)

C4_Falsy(x) ==
    x \in {Undef, Null, Str(<<>>), Num(0), Bool(FALSE)}

\* C4: the entry built from a parsed document has the identifier as id,
\* every truthy field copied and every missing or falsy field at its
\* documented default.
C4_DefaultsExact ==
    (lpc = "ret" /\ result # Null) =>
        /\ result.id = folderName
        /\ \A field \in {"name", "description", "version", "downloadUrl",
                         "size", "comingSoon"} :
             result[field] = IF C4_Falsy(metadata[field])
                             THEN C4_Default(field, folderName)
                             ELSE metadata[field]

\* a document with missing, falsy and present fields was turned into an entry
C4_Witness ==
    /\ lpc = "ret" /\ result # Null
    /\ metadata.name = Undef
    /\ metadata.version = Num(0)
    /\ metadata.description = Null
    /\ metadata.size = Str(<<"S">>)
    /\ metadata.comingSoon = Bool(TRUE)

C5_FirstHit ==
    LET hits == {i \in 1..Len(coverReq) : coverReq[i].ok}
    IN IF hits = {} THEN Null
       ELSE Str(coverReq[CHOOSE i \in hits : \A j \in hits : i <= j].url)

\* C5: cover candidates are requested in their fixed order, none after a
\* success; the entry carries the first successful candidate, and is still
\* produced, with cover null, when all three fail.
C5_CoverInOrder ==
    /\ Len(coverReq) <= 3
    /\ \A i \in 1..Len(coverReq) :
         /\ coverReq[i].url = CoverCandidates(variant, folderName)[i]
         /\ (i < Len(coverReq) => ~coverReq[i].ok)
    /\ (lpc = "ret" /\ MetaFetched /\ metaResp.body # Null) =>
         /\ result # Null
         /\ result.cover = C5_FirstHit
         /\ (C5_FirstHit = Null => Len(coverReq) = 3)

\* one entry without any cover, then one with its entry-specific cover
C5_Witness ==
    /\ Len(games) = 2
    /\ games[1].cover = Null
    /\ games[2].cover = Str(CoverCandidates(variant, games[2].id)[1])

(***************************************************************************)
(* Properties of the AdminPanel                                            *)
(***************************************************************************)
Clicks == TypedInputs \cup {NoTyping}

C6_Incomplete(f) == f.gameName = "" \/ f.gameDesc = "" \/ f.gameUrl = ""

\* C6: a saveGame that reads an empty name, description or download URL
\* changes neither the working list nor the selection nor the form, hands
\* nothing to saveGamesJSON, starts no reload, and shows an error notice.
C6_RejectsIncomplete ==
    [][ \A x \in Clicks :
          (SaveGame(x) /\ C6_Incomplete(Filled(form, x))) =>
              /\ adminGames' = adminGames
              /\ selectedGameId' = selectedGameId
              /\ selectedImage' = selectedImage
              /\ form' = Filled(form, x)
              /\ cards' = cards
              /\ stats' = stats
              /\ tasks' = tasks
              /\ jsonCalls' = jsonCalls
              /\ saveGamesCalls' = saveGamesCalls
              /\ disk' = disk
              /\ Len(alerts') = 1 /\ alerts'[1].type = "error" ]_vars

\* a save without download URL was refused while the list had records
C6_Witness ==
    /\ isElectron
    /\ Len(adminGames) > 0
    /\ form.gameName # "" /\ form.gameDesc # "" /\ form.gameUrl = ""
    /\ alerts = <<Alert("Please fill all required fields (*)", "error")>>

\* C7: the list an accepted saveGame hands to saveGamesJSON is the old list
\* with the new record appended when the form's identifier is not in the
\* list, and the old list with the record of that identifier replaced in
\* place when it is.
C7_AppendOrReplace ==
    [][ \A x \in Clicks :
          (SaveGame(x) /\ ~C6_Incomplete(Filled(form, x))
                       /\ jsonCalls' = jsonCalls + 1) =>
            LET f == Filled(form, x)
                old == adminGames
                handed == adminGames'
            IN IF f.gameId \notin Range(Ids(old))
               THEN /\ Len(handed) = Len(old) + 1
                    /\ SubSeq(handed, 1, Len(old)) = old
                    /\ handed[Len(handed)].name = f.gameName
                    /\ (f.gameId # "" => handed[Len(handed)].id = f.gameId)
               ELSE /\ Len(handed) = Len(old)
                    /\ \A i \in 1..Len(old) :
                         IF old[i].id = f.gameId
                         THEN handed[i].id = f.gameId /\ handed[i].name = f.gameName
                         ELSE handed[i] = old[i] ]_vars

\* C8: when the reload started by a saveGame or deleteGame whose saveGames
\* was rejected ends (nothing else having touched the list meanwhile), the
\* working list is still the list that was handed over; a finished publish
\* leaves the list as it was handed over.
C8_FailureKeepsList ==
    [][ \A t \in tasks :
          /\ (t.kind = "load" /\ t.failed /\ t.clean /\ tasks = {t} /\ tasks' = {})
                => adminGames' = t.handed
          /\ (t.kind = "publish" /\ t.clean /\ tasks = {t} /\ tasks' = {})
                => adminGames' = t.handed ]_vars

\* C9: without the host bridge saveGames and publishGames are never invoked,
\* no save, reset, delete, select or publish handler runs, and the working
\* list changes only when a loadGames completes.
C9_ReadOnly ==
    [][ ~isElectron =>
          /\ saveGamesCalls' = 0 /\ publishCalls' = 0 /\ jsonCalls' = 0
          /\ ~(\E x \in Clicks : SaveGame(x))
          /\ ~ResetForm /\ ~SelectGame /\ ~DeleteGame /\ ~PublishToGitHub
          /\ (adminGames' # adminGames => (LoadScanSettle \/ LoadFallbackSettle))
      ]_vars

\* the read-only page has loaded and drawn its records
C9_Witness ==
    /\ ~isElectron
    /\ tasks = {}
    /\ Len(adminGames) > 0
    /\ cards = Ids(adminGames)
    /\ stats = StatsOf(adminGames)

\* C10: once an accepted saveGame or confirmed deleteGame and the reload it
\* started have finished, the displayed counters are those of the working
\* list.
C10_CountersFollow ==
    (tasks = {} /\ jsonCalls > 0) => stats = StatsOf(adminGames)

\* C11: a deleteGame whose confirmation is declined leaves the working list,
\* the selection, the form and the pending calls as they were and calls
\* neither saveGamesJSON nor saveGames; a confirmed one hands saveGamesJSON,
\* once, the old list without the records of that identifier, the others in
\* their old order.
C11_DeleteFrame ==
    [][ \A i \in 1..Len(cards) :
          /\ DeleteGameOf(cards[i], FALSE) =>
                /\ adminGames' = adminGames
                /\ selectedGameId' = selectedGameId
                /\ selectedImage' = selectedImage
                /\ form' = form
                /\ tasks' = tasks
                /\ jsonCalls' = jsonCalls
                /\ saveGamesCalls' = saveGamesCalls
          /\ DeleteGameOf(cards[i], TRUE) =>
                LET kept == {k \in 1..Len(adminGames) : adminGames[k].id # cards[i]}
                    handed == adminGames'
                IN /\ jsonCalls' = jsonCalls + 1
                   /\ Len(handed) = Cardinality(kept)
                   /\ \A k \in kept :
                        handed[Cardinality({j \in kept : j <= k})] = adminGames[k]
                   /\ \E t \in tasks' \ tasks :
                        t.kind = "delete" /\ t.handed = handed ]_vars

\* the first of two records was deleted and the list is with saveGames
C11_Witness ==
    /\ Len(adminGames) = 1
    /\ adminGames[1].id = "B"
    /\ \E t \in tasks :
         t.kind = "delete" /\ t.pc = "saving" /\ t.handed = adminGames

C12_Blank(x) == \A k \in 1..Len(x) : x[k] \in Whitespace

\* C12: a publishToGitHub call invokes publishGames once when the bridge is
\* present and owner, repo and token each hold a non-blank character, with
\* payload {games: the working list} and with data/games.json and the stock
\* message for a blank path or message; otherwise it invokes nothing,
\* suspends nothing and shows one error notice.
C12_PublishGuard ==
    [][ \A in \in GhInputs :
          PublishToGitHubWith(in) =>
            IF isElectron /\ ~C12_Blank(in.owner) /\ ~C12_Blank(in.repo)
                          /\ ~C12_Blank(in.token)
            THEN /\ publishCalls' = publishCalls + 1
                 /\ Cardinality(tasks' \ tasks) = 1
                 /\ \A t \in tasks' \ tasks :
                      /\ t.kind = "publish"
                      /\ t.arg.payload = [games |-> adminGames]
                      /\ t.arg.filePath =
                            IF C12_Blank(in.filePath) THEN <<"data/games.json">>
                            ELSE Trim(in.filePath)
                      /\ t.arg.message =
                            IF C12_Blank(in.message)
                            THEN <<"Update games.json via admin">>
                            ELSE Trim(in.message)
            ELSE /\ publishCalls' = publishCalls
                 /\ tasks' = tasks
                 /\ Len(alerts') = 1 /\ alerts'[1].type = "error" ]_vars

\* a publish of a non-empty list went out with the default path and message
C12_Witness ==
    \E t \in tasks :
      /\ t.kind = "publish"
      /\ t.arg.filePath = <<"data/games.json">>
      /\ t.arg.message = <<"Update games.json via admin">>
      /\ Len(t.arg.payload.games) > 0
      /\ publishCalls = 1

C13_Loads == {t \in tasks : t.kind = "load"}

\* C13: two loadGames are never in flight together, and while a saveGame or
\* deleteGame stays suspended at its await no step assigns a different
\* working list.
C13_NoInterleaving ==
    /\ [](Cardinality(C13_Loads) <= 1)
    /\ [][ \A t \in tasks :
            (/\ t.kind \in {"save", "delete"}
             /\ \E u \in tasks' : u.tid = t.tid /\ u.kind = t.kind)
                => adminGames' = adminGames ]_vars

RECURSIVE C14_IsSubseq(_, _)
C14_IsSubseq(a, b) ==
    IF a = <<>> THEN TRUE
    ELSE IF b = <<>> THEN FALSE
    ELSE IF Head(a) = Head(b) THEN C14_IsSubseq(Tail(a), Tail(b))
    ELSE C14_IsSubseq(a, Tail(b))

C14_GameIds == [k \in 1..Len(games) |-> games[k].id]

\* C14: requests are issued one after the other.  A strategy probe goes out
\* only when no loadGameMetadata is running and the previous loop is over; a
\* github.json fetch goes out only when the previous loadGameMetadata has
\* returned, and for the next identifier of the list; a cover fetch goes out
\* only inside the running loadGameMetadata; and the ids of this.games are,
\* in order, identifiers of the part of the list already processed.
C14_OneAtATime ==
    /\ [](C14_IsSubseq(C14_GameIds, SubSeq(folders, 1, fi - 1)))
    /\ [](lpc # "idle" => pc \in LoopPcs /\ fi <= Len(folders)
                                         /\ folderName = folders[fi])
    /\ [][ /\ tried' # tried =>
                 lpc = "idle" /\ (pc \in LoopPcs => fi > Len(folders))
           /\ (lpc = "idle" /\ lpc' # "idle") =>
                 folderName' = folders[fi] /\ coverReq' = <<>>
           /\ coverReq' # coverReq /\ coverReq' # <<>> =>
                 /\ lpc = "cover"
                 /\ Len(coverReq') = Len(coverReq) + 1
                 /\ UNCHANGED <<pc, fi, folders, games, tried>>
           /\ fi' # fi => (fi' = 1 /\ tried' # tried) \/ (fi' = fi + 1 /\ lpc = "ret")
         ]_vars

\* both identifiers of a two-identifier list were loaded, in list order
C14_Witness ==
    /\ pc = "done"
    /\ Len(folders) = 2 /\ folders[1] # folders[2]
    /\ C14_GameIds = folders

\* C15: no admin operation (loadGames, saveGame, deleteGame,
\* publishToGitHub) ends in an uncaught error.
C15_NoUncaughtError == ~uncaught

\* C16: the entries of this.games all come from one strategy.  The loop of a
\* strategy starts only while this.games is empty, the list it walks is the
\* result of the strategy tried last, and this.games grows only by the entry
\* of the loop's current identifier.
C16_SingleOrigin ==
    /\ [](pc \in LoopPcs => folders = StrategyIds(tried[Len(tried)]))
    /\ [][ /\ (pc' \in LoopPcs /\ pc' # pc) => games = <<>>
           /\ games' # games =>
                 /\ pc \in LoopPcs /\ pc' = pc /\ folders' = folders
                 /\ Len(games') = Len(games) + 1
                 /\ SubSeq(games', 1, Len(games)) = games
                 /\ games'[Len(games')].id = folders[fi] ]_vars

\* the index file named identifiers none of which loaded, and the entries
\* shown are those of the repository listing
C16_Witness ==
    /\ pc = "done"
    /\ variant = "indexFirst"
    /\ StrategyIds("index") # <<>>
    /\ tried = <<"index", "api">>
    /\ Len(games) > 0

\* C17: no two entries of this.games have the same id.
C17_UniqueIds ==
    \A i, j \in 1..Len(games) : i # j => games[i].id # games[j].id

(***************************************************************************)
(* The index-file probe over every short text                              *)
(***************************************************************************)
MaxTextLen == 5

TextTokens == {"a", "b", " ", "\r", "\n"}

IndexTexts == UNION {[1..n -> TextTokens] : n \in 0..MaxTextLen}

\* the first class of gamecode.js about to fetch an index.txt that exists
IndexInit ==
    /\ variant = "indexFirst"
    /\ \E text \in IndexTexts :
         envResp = [manifest |-> Throw, listing |-> Throw,
                    index |-> Http(TRUE, TextBody(text)), api |-> Throw]
    /\ pc = "B_index"
    /\ games = <<>>
    /\ folders = <<>>
    /\ fi = 1
    /\ tried = <<>>
    /\ shown = "none"
    /\ LoaderIdle
    /\ AdminAbsent

IndexNext == B_IndexProbe

SpecIndex == IndexInit /\ [][IndexNext]_vars

\* the positions just before each line of text: 0 and every line feed
C18_Starts(text) == {0} \cup {i \in 1..Len(text) : text[i] = "\n"}

\* the position just after the line that starts after p
C18_End(text, p) ==
    LET later == {i \in (p + 1)..Len(text) : text[i] = "\n"}
    IN IF later = {} THEN Len(text) + 1
       ELSE CHOOSE i \in later : \A j \in later : i <= j

\* the positions of the line after p that hold a non-blank character
C18_Ink(text, p) ==
    {k \in (p + 1)..(C18_End(text, p) - 1) : text[k] \notin Whitespace}

\* the identifiers the claim describes: per line with a non-blank character,
\* in line order, the line from its first to its last non-blank character
C18_Expected(text) ==
    LET keep == {p \in C18_Starts(text) : C18_Ink(text, p) # {}}
        Nth(n) == CHOOSE p \in keep : Cardinality({q \in keep : q <= p}) = n
        From(p) == CHOOSE k \in C18_Ink(text, p) : \A j \in C18_Ink(text, p) : k <= j
        To(p) == CHOOSE k \in C18_Ink(text, p) : \A j \in C18_Ink(text, p) : k >= j
    IN [n \in 1..Cardinality(keep) |-> SubSeq(text, From(Nth(n)), To(Nth(n)))]

\* C18: when the index file is served, the identifiers handed to the loop
\* are its lines (LF or CRLF), trimmed, without the empty ones, in order.
C18_IndexLines ==
    pc = "B_indexLoop" => folders = C18_Expected(envResp["index"].body.v)

\* a CRLF text with a padded line gave two identifiers
C18_Witness ==
    /\ pc = "B_indexLoop"
    /\ envResp["index"].body.v = <<"a", "\r", "\n", " ", "b">>
    /\ folders = <<IdA, IdB>>

\* the names of the dir-typed items of a listing, in listing order
C19_Expected(contents) ==
    LET keep == {i \in 1..Len(contents) : contents[i].type = "dir"}
        Nth(n) == CHOOSE i \in keep : Cardinality({j \in keep : j <= i}) = n
    IN [n \in 1..Cardinality(keep) |-> contents[Nth(n)].name]

C19_After(s) ==
    LET p == Priority(variant)
        i == CHOOSE k \in 1..Len(p) : p[k] = s
    IN p[i + 1]

\* C19: the loop over a repository listing walks exactly the names of its
\* dir-typed items, in listing order, and loadGameMetadata only ever gets
\* one of them; and when the listing request was answered with a non-success
\* status or with a body that is not a list, the run ends with the strategy
\* after the repository listing attempted.
C19_ApiDirsOnly ==
    /\ pc \in {"B_apiLoop", "C_apiLoop"} =>
          /\ folders = C19_Expected(envResp["api"].body.v)
          /\ lpc # "idle" => folderName \in Range(C19_Expected(envResp["api"].body.v))
    /\ (/\ pc = "done"
        /\ "api" \in Range(tried)
        /\ envResp["api"].kind = "http"
        /\ ~envResp["api"].ok \/ envResp["api"].body.t # "array")
          => C19_After("api") \in Range(tried)

C20_Fallbacks(ts) == {t.tid : t \in {u \in ts : u.kind = "load" /\ u.pc = "fallback"}}

\* C20: when the folder scan of a loadGames ends with at least one record
\* the working list becomes exactly those records and data/games.json is not
\* requested; when it ends with none, or fails, the list is left alone and
\* data/games.json is requested.  When that request is answered with a
\* document the list becomes its games array, or the empty list without
\* that key; when the request or the parse fails the list is left alone and
\* one error notice is shown.
C20_LoadFallback ==
    [][ /\ \A threw \in BOOLEAN :
             LoadScanSettleWith(threw) =>
               IF ~threw /\ Len(folderFound) > 0
               THEN /\ adminGames' = folderFound
                    /\ C20_Fallbacks(tasks') = C20_Fallbacks(tasks)
               ELSE /\ adminGames' = adminGames
                    /\ Cardinality(C20_Fallbacks(tasks')) =
                         Cardinality(C20_Fallbacks(tasks)) + 1
        /\ \A r \in FallbackResponses(disk) :
             LoadFallbackSettleWith(r) =>
               IF r.kind = "http" /\ r.ok /\ r.body.t = "object"
               THEN adminGames' = IF r.body.v.games = Undef THEN <<>>
                                  ELSE r.body.v.games.v
               ELSE /\ adminGames' = adminGames
                    /\ Len(alerts') = 1 /\ alerts'[1].type = "error" ]_vars

\* nothing in the game folders: the list came from data/games.json
C20_Witness ==
    /\ folderFound = <<>>
    /\ opCount = 0
    /\ tasks = {}
    /\ adminGames = <<DiskA>>

\* C21: the step that shows the notice of a failed saveGames shows no
\* 'saved successfully' or 'deleted' notice with it.
C21_SuccessOnlyIfPersisted ==
    FailAlert \in Range(alerts) =>
        \A i \in 1..Len(alerts) :
            ~(alerts[i].type = "success" /\ alerts[i].msg \in {"save", "delete"})

C22_Listed(sel, list) ==
    IF sel = Null THEN TRUE ELSE sel.v \in Range(Ids(list))

\* C22: whenever no saveGame, deleteGame or loadGames is suspended,
\* selectedGameId is null or the id of a record of the working list; and a
\* selectGame either leaves selection, form and list as they were or selects
\* an id of the list.
C22_SelectionValid ==
    /\ []((\A t \in tasks : t.kind = "publish")
            => C22_Listed(selectedGameId, adminGames))
    /\ [][ SelectGame =>
             \/ UNCHANGED <<selectedGameId, selectedImage, form, adminGames>>
             \/ /\ selectedGameId' # Null
                /\ C22_Listed(selectedGameId', adminGames)
                /\ adminGames' = adminGames ]_vars

C23_Loads(ts) == {t \in ts : t.kind = "load"}

\* a loadGames ran to its end through renderGames() and updateStats()
C23_LoadDone ==
    /\ LoadScanSettle \/ LoadFallbackSettle
    /\ Cardinality(C23_Loads(tasks')) < Cardinality(C23_Loads(tasks))
    /\ alerts' = <<>>

\* C23: the displayed counters always satisfy total = active + comingSoon,
\* and right after an updateStats total is the length of the working list,
\* active the number of its records not marked coming-soon and comingSoon
\* the number marked coming-soon.
C23_StatsSum ==
    /\ [](stats.total = stats.active + stats.comingSoon)
    /\ [][ C23_LoadDone =>
             /\ stats'.total = Len(adminGames')
             /\ stats'.active =
                  Cardinality({i \in 1..Len(adminGames') : ~adminGames'[i].comingSoon})
             /\ stats'.comingSoon =
                  Cardinality({i \in 1..Len(adminGames') : adminGames'[i].comingSoon})
         ]_vars

\* the counters of a loaded list with one record of each kind
C23_Witness ==
    /\ tasks = {}
    /\ Len(adminGames) = 2
    /\ \E i, j \in 1..2 : adminGames[i].comingSoon /\ ~adminGames[j].comingSoon
    /\ stats = [total |-> 2, active |-> 1, comingSoon |-> 1]

====
